---- MODULE Spec2Model ----
(***************************************************************************)
(* A model of ynkr's import pipeline (src/.src/import.py): the per-file    *)
(* loop of main(), the SQLite ledger helpers, the normalisation helpers    *)
(* and the two resolver services.                                          *)
(*                                                                         *)
(* Text is modelled character by character: a string is a sequence of      *)
(* one-character strings, so that lower(), the regular expressions of      *)
(* normalize_string / sanitize_filename, os.path.splitext, os.path.join    *)
(* and difflib's ratio are computed the way the code computes them.        *)
(* Two code points outside ASCII are kept, written "U+00E9" (e acute) and  *)
(* "U+0301" (combining acute), to give NFKD and NFC something to do.       *)
(***************************************************************************)
EXTENDS Integers, Sequences, FiniteSets, TLC

\* ------------------------------------------------------------------------
\* Characters and Python's str methods
\* ------------------------------------------------------------------------

UpperLetters ==
  <<"A","B","C","D","E","F","G","H","I","J","K","L","M",
    "N","O","P","Q","R","S","T","U","V","W","X","Y","Z">>

LowerLetters ==
  <<"a","b","c","d","e","f","g","h","i","j","k","l","m",
    "n","o","p","q","r","s","t","u","v","w","x","y","z">>

Digits == {"0","1","2","3","4","5","6","7","8","9"}

\* str.strip() and the regex class \s
Whitespace == {" ", "\t"}

\* the class [\s\-_] of normalize_string
SeparatorChars == Whitespace \cup {"-", "_"}

\* the class [a-z0-9 ] of normalize_string
IdentityChars == {LowerLetters[i] : i \in 1..26} \cup Digits \cup {" "}

\* the class [\\/:*?"<>|] of sanitize_filename
IllegalChars == {"\\", "/", ":", "*", "?", "\"", "<", ">", "|"}

LowerChar(c) ==
  IF \E i \in 1..26 : UpperLetters[i] = c
  THEN LowerLetters[CHOOSE i \in 1..26 : UpperLetters[i] = c]
  ELSE c

\* str.lower()
Lower(s) == [i \in 1..Len(s) |-> LowerChar(s[i])]

\* unicodedata.normalize('NFKD', s): decomposes the precomposed letter
RECURSIVE NFKD(_)
NFKD(s) ==
  IF s = <<>> THEN <<>>
  ELSE (IF Head(s) = "U+00E9" THEN <<"e", "U+0301">> ELSE <<Head(s)>>)
       \o NFKD(Tail(s))

\* unicodedata.normalize('NFC', s): composes letter + combining mark
RECURSIVE NFC(_)
NFC(s) ==
  IF s = <<>> THEN <<>>
  ELSE IF Len(s) >= 2 /\ s[1] = "e" /\ s[2] = "U+0301"
       THEN <<"U+00E9">> \o NFC(SubSeq(s, 3, Len(s)))
       ELSE <<Head(s)>> \o NFC(Tail(s))

\* re.sub(r'[\s\-_]+', ' ', s)
RECURSIVE CollapseSeparators(_)
CollapseSeparators(s) ==
  IF s = <<>> THEN <<>>
  ELSE IF Head(s) \in SeparatorChars
       THEN IF Len(s) >= 2 /\ s[2] \in SeparatorChars
            THEN CollapseSeparators(Tail(s))
            ELSE <<" ">> \o CollapseSeparators(Tail(s))
       ELSE <<Head(s)>> \o CollapseSeparators(Tail(s))

\* re.sub(<one character class>, '', s), given the characters that stay
KeepChars(s, keep) == SelectSeq(s, LAMBDA c : c \in keep)

DropChars(s, drop) == SelectSeq(s, LAMBDA c : c \notin drop)

RECURSIVE LStrip(_)
LStrip(s) ==
  IF s # <<>> /\ Head(s) \in Whitespace THEN LStrip(Tail(s)) ELSE s

RECURSIVE RStrip(_)
RStrip(s) ==
  IF s # <<>> /\ s[Len(s)] \in Whitespace
  THEN RStrip(SubSeq(s, 1, Len(s) - 1)) ELSE s

\* str.strip()
Strip(s) == RStrip(LStrip(s))

\* s.split(sep)[0]
RECURSIVE SplitFirst(_, _)
SplitFirst(s, sep) ==
  IF s = <<>> \/ Head(s) = sep THEN <<>>
  ELSE <<Head(s)>> \o SplitFirst(Tail(s), sep)

\* ------------------------------------------------------------------------
\* Normalisation helpers
\* ------------------------------------------------------------------------

normalize_string(s) ==
  IF s = <<>> THEN <<>>
  ELSE Strip(KeepChars(CollapseSeparators(NFKD(Lower(s))), IdentityChars))

normalize_filename_for_db(filename) ==
  IF filename = <<>> THEN <<>> ELSE NFC(filename)

sanitize_filename(s) == Strip(DropChars(s, IllegalChars))

\* ------------------------------------------------------------------------
\* os.path
\* ------------------------------------------------------------------------

\* str.rfind(c), 1-based, 0 when absent
RFind(s, c) ==
  LET hits == {i \in 1..Len(s) : s[i] = c}
  IN IF hits = {} THEN 0 ELSE CHOOSE i \in hits : \A j \in hits : j <= i

\* the index at which os.path.splitext cuts p, or 0 when p has no
\* extension: the last dot after the last separator, unless only dots
\* stand between the two
SplitextIndex(p) ==
  LET sepIndex == RFind(p, "/")
      dotIndex == RFind(p, ".")
  IN IF dotIndex > sepIndex
        /\ \E k \in (sepIndex + 1)..(dotIndex - 1) : p[k] # "."
     THEN dotIndex ELSE 0

\* os.path.splitext(p)[0]
SplitextRoot(p) ==
  IF SplitextIndex(p) = 0 THEN p ELSE SubSeq(p, 1, SplitextIndex(p) - 1)

\* os.path.splitext(p)[1]
SplitextExt(p) ==
  IF SplitextIndex(p) = 0 THEN <<>> ELSE SubSeq(p, SplitextIndex(p), Len(p))

\* os.path.join(a, b)
PathJoin(a, b) ==
  IF b # <<>> /\ Head(b) = "/" THEN b
  ELSE IF a = <<>> \/ a[Len(a)] = "/" THEN a \o b
  ELSE a \o <<"/">> \o b

\* os.path.basename(p)
Basename(p) == SubSeq(p, RFind(p, "/") + 1, Len(p))

IsPrefix(a, b) == Len(a) <= Len(b) /\ SubSeq(b, 1, Len(a)) = a

\* os.listdir(dir) over the files of the destination tree: the names of
\* the files in dir and of its subdirectories.  A directory of the tree
\* exists exactly when a file was copied below it, so os.path.exists(dir)
\* followed by os.listdir(dir) is the same set, empty for a missing dir.
ListDir(files, dir) ==
  LET base == IF dir # <<>> /\ dir[Len(dir)] = "/" THEN dir ELSE dir \o <<"/">>
      below == {p \in files : IsPrefix(base, p) /\ Len(p) > Len(base)}
  IN {SplitFirst(SubSeq(p, Len(base) + 1, Len(p)), "/") : p \in below}

\* ------------------------------------------------------------------------
\* Audio extensions
\* ------------------------------------------------------------------------

AUDIO_EXTS ==
  { <<".","m","p","3">>, <<".","m","4","a">>, <<".","o","p","u","s">>,
    <<".","o","g","g">>, <<".","f","l","a","c">>, <<".","w","a","v">>,
    <<".","a","a","c">> }

is_audio_file(filename) == Lower(SplitextExt(filename)) \in AUDIO_EXTS

\* ------------------------------------------------------------------------
\* difflib.SequenceMatcher(None, a, b).ratio()
\* ------------------------------------------------------------------------

\* length of the common run of a from i and b from j
RECURSIVE RunLen(_, _, _, _)
RunLen(a, b, i, j) ==
  IF i > Len(a) \/ j > Len(b) \/ a[i] # b[j] THEN 0
  ELSE 1 + RunLen(a, b, i + 1, j + 1)

\* find_longest_match: <<i, j, k>>, the longest block, of those the one
\* starting earliest in a, and of those the one starting earliest in b
LongestMatch(a, b) ==
  LET cand == {<<i, j, RunLen(a, b, i, j)>> : i \in 1..Len(a), j \in 1..Len(b)}
      sizes == {c[3] : c \in cand}
      k == CHOOSE n \in sizes : \A m \in sizes : m <= n
      starts == {c[1] : c \in {d \in cand : d[3] = k}}
      i0 == CHOOSE i \in starts : \A m \in starts : i <= m
      seconds == {c[2] : c \in {d \in cand : d[3] = k /\ d[1] = i0}}
      j0 == CHOOSE j \in seconds : \A m \in seconds : j <= m
  IN <<i0, j0, k>>

\* the summed size of get_matching_blocks()
RECURSIVE MatchingSize(_, _)
MatchingSize(a, b) ==
  IF a = <<>> \/ b = <<>> THEN 0
  ELSE LET m == LongestMatch(a, b)
       IN IF m[3] = 0 THEN 0
          ELSE m[3]
               + MatchingSize(SubSeq(a, 1, m[1] - 1), SubSeq(b, 1, m[2] - 1))
               + MatchingSize(SubSeq(a, m[1] + m[3], Len(a)),
                              SubSeq(b, m[2] + m[3], Len(b)))

\* ratio() >= threshold, with the threshold in hundredths:
\* 2.0 * matches / (len(a) + len(b)) >= threshold / 100
RatioAtLeast(a, b, threshold) ==
  IF Len(a) + Len(b) = 0 THEN TRUE
  ELSE 2 * MatchingSize(a, b) * 100 >= threshold * (Len(a) + Len(b))

is_similar(a, b, threshold) ==
  IF a = <<>> \/ b = <<>> THEN FALSE
  ELSE RatioAtLeast(Lower(a), Lower(b), threshold)

\* ------------------------------------------------------------------------
\* The ledger: the rows of table imports, in rowid order.  A row is
\* [original_name, ai_artist, ai_title, storage_path]; id is the position
\* and date_added is never read by the pipeline.
\* ------------------------------------------------------------------------

REASON_not_audio == <<"n","o","t","_","a","u","d","i","o">>

REASON_duplicate == <<"d","u","p","l","i","c","a","t","e">>

REASON_no_metadata == <<"n","o","_","m","e","t","a","d","a","t","a">>

REASON_bulk_import_audio ==
  <<"b","u","l","k","_","i","m","p","o","r","t","_","a","u","d","i","o">>

REASON_bulk_import_non_audio ==
  <<"b","u","l","k","_","i","m","p","o","r","t","_",
    "n","o","n","_","a","u","d","i","o">>

\* f"[{reason}]"
ReasonTag(reason) == <<"[">> \o reason \o <<"]">>

insert_db(rows, original_name, ai_artist, ai_title, storage_path) ==
  Append(rows, [original_name |-> original_name, ai_artist |-> ai_artist,
                ai_title |-> ai_title, storage_path |-> storage_path])

insert_db_skipped(rows, original_name, reason) ==
  Append(rows, [original_name |-> original_name,
                ai_artist |-> ReasonTag(reason),
                ai_title |-> ReasonTag(reason),
                storage_path |-> ReasonTag(reason)])

\* fetchone() of a SELECT: the first of the matching row positions, 0 for
\* None
FirstRow(hits) ==
  IF hits = {} THEN 0 ELSE CHOOSE i \in hits : \A j \in hits : i <= j

\* the lookup that stops after its first SELECT
check_db_by_filename_variations_ExactCase(rows, filename) ==
  FirstRow({i \in 1..Len(rows) : rows[i].original_name = filename})

\* the lookup that sees import rows only
check_db_by_filename_variations_ImportsOnly(rows, filename) ==
  FirstRow({i \in 1..Len(rows) :
              /\ rows[i].original_name = filename
              /\ ~(rows[i].storage_path # <<>>
                   /\ Head(rows[i].storage_path) = "[")})

check_db_by_filename_variations(rows, filename) ==
  LET normalized == normalize_filename_for_db(filename)
      exact ==
        FirstRow({i \in 1..Len(rows) : rows[i].original_name = filename})
      nocase ==
        FirstRow({i \in 1..Len(rows) :
                    Lower(rows[i].original_name) = Lower(filename)})
      norm ==
        FirstRow({i \in 1..Len(rows) : rows[i].original_name = normalized})
      normNocase ==
        FirstRow({i \in 1..Len(rows) :
                    Lower(rows[i].original_name) = Lower(normalized)})
  IN IF exact # 0 THEN exact
     ELSE IF nocase # 0 THEN nocase
     ELSE IF norm # 0 THEN norm
     ELSE normNocase

\* the row test with "or" in place of "and"
FuzzyRowMatches_EitherField(row, ai_artist, ai_title, threshold) ==
  is_similar(ai_artist, row.ai_artist, threshold)
  \/ is_similar(ai_title, row.ai_title, threshold)

\* the row test of check_db_fuzzy
FuzzyRowMatches(row, ai_artist, ai_title, threshold) ==
  is_similar(ai_artist, row.ai_artist, threshold)
  /\ is_similar(ai_title, row.ai_title, threshold)

check_db_fuzzy(rows, ai_artist, ai_title, threshold) ==
  FirstRow({i \in 1..Len(rows) :
              FuzzyRowMatches(rows[i], ai_artist, ai_title, threshold)})

\* SQLite's LIKE: % matches any run, _ any one character, letters match
\* without regard to case
RECURSIVE LikeMatch(_, _)
LikeMatch(s, pat) ==
  IF pat = <<>> THEN s = <<>>
  ELSE IF Head(pat) = "%"
       THEN LikeMatch(s, Tail(pat)) \/ (s # <<>> /\ LikeMatch(Tail(s), pat))
  ELSE IF s = <<>> THEN FALSE
  ELSE (Head(pat) = "_" \/ LowerChar(Head(pat)) = LowerChar(Head(s)))
       /\ LikeMatch(Tail(s), Tail(pat))

BULK_PATTERN ==
  <<"[","b","u","l","k","_","i","m","p","o","r","t","_","%","]">>

\* the cleanup that deletes every row with a bracketed tag
cleanup_bulk_imports_AllTags(rows) ==
  SelectSeq(rows, LAMBDA r : ~LikeMatch(r.ai_artist, <<"[", "%", "]">>))

\* DELETE FROM imports WHERE ai_artist LIKE "[bulk_import_%]"
cleanup_bulk_imports(rows) ==
  SelectSeq(rows, LAMBDA r : ~LikeMatch(r.ai_artist, BULK_PATTERN))

\* the seeding that does not look a name up before writing its row
RECURSIVE bulk_import_files_to_db_NoLookup(_, _)
bulk_import_files_to_db_NoLookup(rows, fnames) ==
  IF fnames = <<>> THEN rows
  ELSE bulk_import_files_to_db_NoLookup(
         insert_db_skipped(rows, Head(fnames),
                           IF is_audio_file(Head(fnames))
                           THEN REASON_bulk_import_audio
                           ELSE REASON_bulk_import_non_audio),
         Tail(fnames))

\* the loop of bulk_import_files_to_db over the file names in walk order
RECURSIVE bulk_import_files_to_db(_, _)
bulk_import_files_to_db(rows, fnames) ==
  IF fnames = <<>> THEN rows
  ELSE LET fname == Head(fnames)
           next ==
             IF check_db_by_filename_variations(rows, fname) # 0 THEN rows
             ELSE IF is_audio_file(fname)
                  THEN insert_db_skipped(rows, fname, REASON_bulk_import_audio)
                  ELSE insert_db_skipped(rows, fname, REASON_bulk_import_non_audio)
       IN bulk_import_files_to_db(next, Tail(fnames))

\* ------------------------------------------------------------------------
\* The resolver services.  A reply is what the service sends back:
\* [kind, use_as_is, artist, title], kind "error" for a timeout or a
\* network failure, "malformed" for content json.loads rejects, "json"
\* for a JSON object whose artist and title are strings, "json_list" for
\* a JSON object whose artist and title are arrays of strings.  An answer
\* is the triple the query function returns; None and False are told
\* apart nowhere, so both are FALSE, and None and "" both are <<>>;
\* is_str tells whether artist and title are of type str.
\* ------------------------------------------------------------------------

NoAnswer ==
  [use_as_is |-> FALSE, artist |-> <<>>, title |-> <<>>, is_str |-> TRUE]

\* requests.post(...).json() is a dict, and the attribute access
\* result.response on it raises AttributeError inside the try: whatever
\* the service replied, the except branch returns (None, None, None)
query_ollama_for_metadata(cfg, reply) ==
  IF ~cfg.USE_OLLAMA THEN NoAnswer
  ELSE IF reply.kind = "error" THEN NoAnswer
  ELSE NoAnswer

query_openai_for_metadata(cfg, reply) ==
  IF ~(cfg.USE_OPENAI /\ cfg.OPENAI_API_KEY) THEN NoAnswer
  ELSE IF reply.kind \notin {"json", "json_list"} THEN NoAnswer
  ELSE [use_as_is |-> reply.use_as_is, artist |-> reply.artist,
        title |-> reply.title, is_str |-> reply.kind = "json"]

\* the requests each query function sends
OllamaCalls(cfg) == IF cfg.USE_OLLAMA THEN <<"ollama">> ELSE <<>>

OpenAICalls(cfg) ==
  IF cfg.USE_OPENAI /\ cfg.OPENAI_API_KEY THEN <<"openai">> ELSE <<>>

\* ------------------------------------------------------------------------
\* Source files and metadata
\* ------------------------------------------------------------------------

SRC == <<"/","s","r","c">>

DEST == <<"/","d","e","s","t">>

Unknown_Artist == <<"U","n","k","n","o","w","n","_","A","r","t","i","s","t">>

Unknown_Title == <<"U","n","k","n","o","w","n","_","T","i","t","l","e">>

unknown_title == <<"u","n","k","n","o","w","n","_","t","i","t","l","e">>

UNSORTED == <<"_","U","n","s","o","r","t","e","d">>

\* os.path.join(root, fname) for a file of the walk
SourcePath(f) == PathJoin(PathJoin(SRC, f.dir), f.name)

\* get_metadata: the first artist and title tag, {} when mutagen cannot
\* read the container
get_metadata(f) ==
  IF f.readable THEN [artist |-> f.artist, title |-> f.title]
  ELSE [artist |-> <<>>, title |-> <<>>]

\* ------------------------------------------------------------------------
\* Placement
\* ------------------------------------------------------------------------

\* artist.split(';')[0].strip() if artist else "Unknown_Artist"
MainArtist(artist) ==
  IF artist # <<>> THEN Strip(SplitFirst(artist, ";")) ELSE Unknown_Artist

SafeArtist(artist) ==
  IF MainArtist(artist) # <<>> THEN sanitize_filename(MainArtist(artist))
  ELSE Unknown_Artist

SafeTitle(title) ==
  IF title # <<>> THEN sanitize_filename(title) ELSE Unknown_Title

DestDir(artist) == PathJoin(DEST, SafeArtist(artist))

\* the placement that keeps the name the file has in the source tree
DestPath_OriginalName(artist, title, fname) ==
  PathJoin(DestDir(artist), fname)

DestPath(artist, title, fname) ==
  PathJoin(DestDir(artist), SafeTitle(title) \o Lower(SplitextExt(fname)))

UnsortedPath(f) == PathJoin(PathJoin(DEST, UNSORTED), Basename(SourcePath(f)))

\* the scan comparing whole file names, extension included
DuplicateFound_WithExtension(paths, artist, title) ==
  LET existing_files ==
        {n \in ListDir(paths, DestDir(artist)) :
           Lower(SplitextExt(n)) \in AUDIO_EXTS}
      norm_title ==
        IF title # <<>> THEN normalize_string(title) ELSE unknown_title
  IN \E n \in existing_files : normalize_string(n) = norm_title

\* the scan of dest_dir for an audio file whose normalised stem is the
\* normalised title
DuplicateFound(paths, artist, title) ==
  LET existing_files ==
        {n \in ListDir(paths, DestDir(artist)) :
           Lower(SplitextExt(n)) \in AUDIO_EXTS}
      norm_title ==
        IF title # <<>> THEN normalize_string(title) ELSE unknown_title
  IN \E n \in existing_files : normalize_string(SplitextRoot(n)) = norm_title

\* the tags of a copy: those of the source, then artist and title
\* rewritten unless mutagen cannot open the copy or the rewrite raises
\* (the except branch only logs)
CopiedContent(f, artist, title, tagOK) ==
  LET ext == Lower(SplitextExt(f.name))
      main_artist == IF artist # <<>> THEN Strip(SplitFirst(artist, ";")) ELSE <<>>
      multi == ext \in {<<".","f","l","a","c">>, <<".","o","g","g">>,
                        <<".","o","p","u","s">>}
  IN IF tagOK /\ f.readable
     THEN [origin |-> SourcePath(f),
           artist |-> IF multi THEN artist ELSE main_artist,
           title |-> title]
     ELSE [origin |-> SourcePath(f), artist |-> f.artist, title |-> f.title]

\* the copy and tag rewrite that write the file they read
CopyInto_AtSource(files, path, f, artist, title, tagOK) ==
  (SourcePath(f) :> CopiedContent(f, artist, title, tagOK)) @@ files

\* shutil.copy2(fpath, path) and the tag rewrite that follows it
CopyInto(files, path, f, artist, title, tagOK) ==
  (path :> CopiedContent(f, artist, title, tagOK)) @@ files

\* shutil.copy2(fpath, unsorted_dest): no tag rewrite follows
CopyRaw(files, path, f) ==
  (path :> [origin |-> SourcePath(f), artist |-> f.artist, title |-> f.title])
  @@ files

\* ------------------------------------------------------------------------
\* The body of the per-file loop of main().  c is the iteration's context:
\* the file f, the ledger rows and destination files it starts from, the
\* flags dry_run and dry_ai, the configuration cfg, and what the
\* environment does during the iteration: the two services' replies,
\* whether copy2 succeeds (copyOK) and whether the tag rewrite succeeds
\* (tagOK).  The result is what the iteration leaves behind.
\* ------------------------------------------------------------------------

Untouched(c) ==
  [outcome |-> "none", rows |-> c.rows, files |-> c.files, calls |-> <<>>,
   copied |-> {}, overwrote |-> {}, halted |-> FALSE,
   artist |-> <<>>, title |-> <<>>, use_as_is |-> FALSE,
   dest_path |-> <<>>, matched |-> 0, scanned |-> FALSE,
   events |-> <<>>, asked |-> <<>>, replies |-> <<>>]

\* the arguments of the query functions, one entry per request sent
Asked(calls, filename, artist, title) ==
  [i \in DOMAIN calls |->
     [filename |-> filename, existing_artist |-> artist,
      existing_title |-> title]]

\* what the service sent back, one entry per request sent
Replied(calls, reply) == [i \in DOMAIN calls |-> reply]

\* lines 650-721: the chain of the two services
Resolve(c, artist, title) ==
  LET filename == Basename(SourcePath(c.f))
      first == query_ollama_for_metadata(c.cfg, c.ollamaReply)
      afterFirst ==
        IF ~c.cfg.USE_OLLAMA
        THEN [use_as_is |-> FALSE, llm_artist |-> <<>>, llm_title |-> <<>>,
              artist |-> artist, title |-> title, is_str |-> TRUE,
              calls |-> <<>>, asked |-> <<>>, replies |-> <<>>]
        ELSE [use_as_is |-> first.use_as_is, llm_artist |-> first.artist,
              llm_title |-> first.title,
              artist |-> IF ~first.use_as_is /\ first.artist # <<>>
                            /\ first.title # <<>>
                         THEN first.artist ELSE artist,
              title |-> IF ~first.use_as_is /\ first.artist # <<>>
                           /\ first.title # <<>>
                        THEN first.title ELSE title,
              is_str |-> IF ~first.use_as_is /\ first.artist # <<>>
                            /\ first.title # <<>>
                         THEN first.is_str ELSE TRUE,
              calls |-> OllamaCalls(c.cfg),
              asked |-> Asked(OllamaCalls(c.cfg), filename, artist, title),
              replies |-> Replied(OllamaCalls(c.cfg), c.ollamaReply)]
      askSecond ==
        c.cfg.USE_OPENAI
        /\ ~afterFirst.use_as_is
        /\ ~(afterFirst.llm_artist # <<>> /\ afterFirst.llm_title # <<>>)
      second == query_openai_for_metadata(c.cfg, c.openaiReply)
  IN IF ~askSecond THEN afterFirst
     ELSE [use_as_is |-> second.use_as_is, llm_artist |-> second.artist,
           llm_title |-> second.title,
           artist |-> IF ~second.use_as_is /\ second.artist # <<>>
                         /\ second.title # <<>>
                      THEN second.artist ELSE afterFirst.artist,
           title |-> IF ~second.use_as_is /\ second.artist # <<>>
                        /\ second.title # <<>>
                     THEN second.title ELSE afterFirst.title,
           is_str |-> IF ~second.use_as_is /\ second.artist # <<>>
                         /\ second.title # <<>>
                      THEN second.is_str ELSE afterFirst.is_str,
           calls |-> afterFirst.calls \o OpenAICalls(c.cfg),
           asked |-> afterFirst.asked
                     \o Asked(OpenAICalls(c.cfg), filename, afterFirst.artist,
                              afterFirst.title),
           replies |-> afterFirst.replies
                       \o Replied(OpenAICalls(c.cfg), c.openaiReply)]

\* lines 744-781: the --dry-ai preview, one service asked, nothing done;
\* os.path.join at 776 raises TypeError on an artist that is not a str
DryAiPreview(c) ==
  LET calls == IF c.cfg.USE_OLLAMA THEN OllamaCalls(c.cfg)
               ELSE IF c.cfg.USE_OPENAI THEN OpenAICalls(c.cfg)
               ELSE <<>>
      meta == get_metadata(c.f)
      answer == IF c.cfg.USE_OLLAMA
                THEN query_ollama_for_metadata(c.cfg, c.ollamaReply)
                ELSE IF c.cfg.USE_OPENAI
                THEN query_openai_for_metadata(c.cfg, c.openaiReply)
                ELSE NoAnswer
      raises == /\ ~answer.use_as_is
                /\ answer.artist # <<>> /\ answer.title # <<>>
                /\ ~answer.is_str
  IN [Untouched(c) EXCEPT
        !.outcome = IF raises THEN "type_error" ELSE "dry_ai_preview",
        !.halted = raises,
        !.calls = calls, !.events = calls,
        !.asked = Asked(calls, Basename(SourcePath(c.f)), meta.artist,
                        meta.title),
        !.replies = Replied(calls, IF c.cfg.USE_OLLAMA THEN c.ollamaReply
                                   ELSE c.openaiReply)]

\* the same lines without the continue that follows the linking row: the
\* import row is written as well
CopyAndRecord_NoContinue(c, r) ==
  LET base == [Untouched(c) EXCEPT !.calls = r.calls, !.artist = r.artist,
                 !.title = r.title, !.dest_path = r.dest_path,
                 !.scanned = TRUE]
      copies == ~c.dry_run
      files1 == IF copies
                THEN CopyInto(c.files, r.dest_path, c.f, r.artist, r.title, c.tagOK)
                ELSE c.files
      fuzzy_match == check_db_fuzzy(c.rows, r.artist, r.title, 95)
  IN IF r.dest_path \in DOMAIN c.files
     THEN [base EXCEPT !.outcome = "exists_skip"]
     ELSE IF copies /\ ~c.copyOK
     THEN [base EXCEPT !.outcome = "copy_error", !.halted = TRUE]
     ELSE IF fuzzy_match # 0
     THEN [base EXCEPT
             !.outcome = "fuzzy_resolved", !.files = files1,
             !.copied = IF copies THEN {r.dest_path} ELSE {},
             !.overwrote = IF copies THEN {r.dest_path} \cap DOMAIN c.files
                           ELSE {},
             !.matched = fuzzy_match,
             !.rows = insert_db(insert_db(c.rows, c.f.name,
                                          c.rows[fuzzy_match].ai_artist,
                                          c.rows[fuzzy_match].ai_title,
                                          c.rows[fuzzy_match].storage_path),
                                c.f.name, r.artist, r.title, r.dest_path)]
     ELSE [base EXCEPT
             !.outcome = "imported", !.files = files1,
             !.copied = IF copies THEN {r.dest_path} ELSE {},
             !.overwrote = IF copies THEN {r.dest_path} \cap DOMAIN c.files
                           ELSE {},
             !.rows = insert_db(c.rows, c.f.name, r.artist, r.title,
                                r.dest_path)]

\* lines 881-948: skip an existing path, else copy (unless dry_run), then
\* the fuzzy check on the resolved pair, then the import row
CopyAndRecord(c, r) ==
  LET base == [Untouched(c) EXCEPT !.calls = r.calls, !.artist = r.artist,
                 !.title = r.title, !.dest_path = r.dest_path,
                 !.scanned = TRUE]
      copies == ~c.dry_run
      files1 == IF copies
                THEN CopyInto(c.files, r.dest_path, c.f, r.artist, r.title, c.tagOK)
                ELSE c.files
      fuzzy_match == check_db_fuzzy(c.rows, r.artist, r.title, 95)
  IN IF r.dest_path \in DOMAIN c.files
     THEN [base EXCEPT !.outcome = "exists_skip"]
     ELSE IF copies /\ ~c.copyOK
     THEN [base EXCEPT !.outcome = "copy_error", !.halted = TRUE]
     ELSE IF fuzzy_match # 0
     THEN [base EXCEPT
             !.outcome = "fuzzy_resolved", !.files = files1,
             !.copied = IF copies THEN {r.dest_path} ELSE {},
             !.overwrote = IF copies THEN {r.dest_path} \cap DOMAIN c.files
                           ELSE {},
             !.matched = fuzzy_match,
             !.rows = insert_db(c.rows, c.f.name,
                                c.rows[fuzzy_match].ai_artist,
                                c.rows[fuzzy_match].ai_title,
                                c.rows[fuzzy_match].storage_path)]
     ELSE [base EXCEPT
             !.outcome = "imported", !.files = files1,
             !.copied = IF copies THEN {r.dest_path} ELSE {},
             !.overwrote = IF copies THEN {r.dest_path} \cap DOMAIN c.files
                           ELSE {},
             !.rows = insert_db(c.rows, c.f.name, r.artist, r.title,
                                r.dest_path)]

\* lines 866-879: no artist or no title
DivertUnsorted(c, r) ==
  LET base == [Untouched(c) EXCEPT !.calls = r.calls, !.artist = r.artist,
                 !.title = r.title, !.dest_path = UnsortedPath(c.f),
                 !.scanned = TRUE]
  IN IF c.dry_run \/ c.dry_ai
     THEN [base EXCEPT !.outcome = "would_unsorted"]
     ELSE IF ~c.copyOK
     THEN [base EXCEPT !.outcome = "copy_error", !.halted = TRUE]
     ELSE [base EXCEPT
             !.outcome = "unsorted",
             !.files = CopyRaw(c.files, UnsortedPath(c.f), c.f),
             !.copied = {UnsortedPath(c.f)},
             !.overwrote = {UnsortedPath(c.f)} \cap DOMAIN c.files,
             !.rows = insert_db_skipped(c.rows, c.f.name, REASON_no_metadata)]

\* lines 807-864: the use_as_is branch
CopyAsIs(c, r) ==
  LET base == [Untouched(c) EXCEPT !.calls = r.calls, !.artist = r.artist,
                 !.title = r.title, !.dest_path = r.dest_path,
                 !.use_as_is = TRUE, !.scanned = TRUE]
  IN IF r.dest_path \in DOMAIN c.files
     THEN [base EXCEPT !.outcome = "exists_skip"]
     ELSE IF c.dry_run
     THEN [base EXCEPT !.outcome = "would_copy_as_is"]
     ELSE IF ~c.copyOK
     THEN [base EXCEPT !.outcome = "copy_error", !.halted = TRUE]
     ELSE [base EXCEPT
             !.outcome = "copied_as_is",
             !.files = CopyInto(c.files, r.dest_path, c.f, r.artist, r.title,
                                c.tagOK),
             !.copied = {r.dest_path},
             !.overwrote = {r.dest_path} \cap DOMAIN c.files]

\* lines 783-805 and what follows: the duplicate scan, then one of the
\* three branches; artist.split(';') at 724 and 784 raises AttributeError
\* on a value that is not a str, and nothing catches it
Place(c, r0) ==
  LET r == [r0 EXCEPT !.dest_path = DestPath(r0.artist, r0.title, c.f.name)]
  IN IF ~r.is_str
     THEN [Untouched(c) EXCEPT
             !.outcome = "type_error", !.halted = TRUE, !.calls = r.calls,
             !.artist = r.artist, !.title = r.title]
     ELSE IF DuplicateFound(DOMAIN c.files, r.artist, r.title)
     THEN [Untouched(c) EXCEPT
             !.outcome = "duplicate", !.calls = r.calls,
             !.artist = r.artist, !.title = r.title,
             !.dest_path = r.dest_path, !.use_as_is = r.use_as_is,
             !.scanned = TRUE,
             !.rows = insert_db_skipped(c.rows, c.f.name, REASON_duplicate)]
     ELSE IF r.use_as_is THEN CopyAsIs(c, r)
     ELSE IF ~(r.artist # <<>> /\ r.title # <<>>) THEN DivertUnsorted(c, r)
     ELSE CopyAndRecord(c, r)

\* lines 650-781: which of the three resolution branches runs
AfterRawFuzzy(c, artist, title) ==
  LET unresolved ==
        [use_as_is |-> FALSE, llm_artist |-> <<>>, llm_title |-> <<>>,
         artist |-> artist, title |-> title, is_str |-> TRUE,
         calls |-> <<>>, dest_path |-> <<>>]
      resolved == Resolve(c, artist, title)
  IN IF (c.cfg.USE_OLLAMA \/ c.cfg.USE_OPENAI) /\ ~c.dry_run
     THEN [Place(c, [dest_path |-> <<>>] @@ resolved) EXCEPT
             !.asked = resolved.asked, !.replies = resolved.replies,
             !.events = resolved.calls]
     ELSE IF c.dry_ai THEN DryAiPreview(c)
     ELSE Place(c, unresolved)

\* the steps of an iteration that precede placement, as the events it
\* records in order
EV_lookup_exact == "lookup_exact"

EV_get_metadata == "get_metadata"

EV_lookup_fuzzy == "lookup_fuzzy"

\* the loop body with the resolver chain moved in front of the fuzzy
\* check on the extracted pair
ProcessFile_ResolveFirst(c) ==
  LET fname == c.f.name
      meta == get_metadata(c.f)
      artist == meta.artist
      title == meta.title
      fuzzy_match ==
        IF artist # <<>> /\ title # <<>>
        THEN check_db_fuzzy(c.rows, artist, title, c.cfg.FUZZY_RATIO)
        ELSE 0
      looked == IF artist # <<>> /\ title # <<>> THEN <<EV_lookup_fuzzy>>
                ELSE <<>>
      rest == AfterRawFuzzy(c, artist, title)
  IN IF check_db_by_filename_variations(c.rows, fname) # 0
     THEN [Untouched(c) EXCEPT !.outcome = "skip_exact",
                               !.events = <<EV_lookup_exact>>]
     ELSE IF ~is_audio_file(fname)
     THEN [Untouched(c) EXCEPT
             !.outcome = "not_audio", !.events = <<EV_lookup_exact>>,
             !.rows = insert_db_skipped(c.rows, fname, REASON_not_audio)]
     ELSE IF fuzzy_match # 0
     THEN [Untouched(c) EXCEPT
             !.outcome = "fuzzy_raw", !.artist = artist, !.title = title,
             !.matched = fuzzy_match,
             !.calls = rest.calls, !.asked = rest.asked,
             !.replies = rest.replies,
             !.events = <<EV_lookup_exact, EV_get_metadata>> \o rest.calls
                        \o looked,
             !.rows = insert_db(c.rows, fname,
                                c.rows[fuzzy_match].ai_artist,
                                c.rows[fuzzy_match].ai_title,
                                c.rows[fuzzy_match].storage_path)]
     ELSE [rest EXCEPT
             !.events = <<EV_lookup_exact, EV_get_metadata>> \o @ \o looked]

\* lines 588-648: the exact check, the type check, extraction and the
\* fuzzy check on the extracted pair, then the rest of the body
ProcessFile(c) ==
  LET fname == c.f.name
      meta == get_metadata(c.f)
      artist == meta.artist
      title == meta.title
      fuzzy_match ==
        IF artist # <<>> /\ title # <<>>
        THEN check_db_fuzzy(c.rows, artist, title, c.cfg.FUZZY_RATIO)
        ELSE 0
      looked == IF artist # <<>> /\ title # <<>> THEN <<EV_lookup_fuzzy>>
                ELSE <<>>
      rest == AfterRawFuzzy(c, artist, title)
  IN IF check_db_by_filename_variations(c.rows, fname) # 0
     THEN [Untouched(c) EXCEPT !.outcome = "skip_exact",
                               !.events = <<EV_lookup_exact>>]
     ELSE IF ~is_audio_file(fname)
     THEN [Untouched(c) EXCEPT
             !.outcome = "not_audio", !.events = <<EV_lookup_exact>>,
             !.rows = insert_db_skipped(c.rows, fname, REASON_not_audio)]
     ELSE IF fuzzy_match # 0
     THEN [Untouched(c) EXCEPT
             !.outcome = "fuzzy_raw", !.artist = artist, !.title = title,
             !.matched = fuzzy_match,
             !.events = <<EV_lookup_exact, EV_get_metadata>> \o looked,
             !.rows = insert_db(c.rows, fname,
                                c.rows[fuzzy_match].ai_artist,
                                c.rows[fuzzy_match].ai_title,
                                c.rows[fuzzy_match].storage_path)]
     ELSE [rest EXCEPT
             !.events = <<EV_lookup_exact, EV_get_metadata>> \o looked \o @]

\* ------------------------------------------------------------------------
\* The state machine: invocations of import.py against one source tree,
\* one destination tree and one ledger
\* ------------------------------------------------------------------------

MaxFiles == 2

MaxRuns == 2

\* the source files the trees are drawn from
F_s1 ==
  [dir |-> <<>>, name |-> <<"s","1",".","m","p","3">>,
   artist |-> <<"A","b">>, title |-> <<"x">>, readable |-> TRUE]

F_s2 ==
  [dir |-> <<>>, name |-> <<"s","2",".","f","l","a","c">>,
   artist |-> <<"A","b",";","C">>, title |-> <<"x","?">>, readable |-> TRUE]

F_s3 ==
  [dir |-> <<>>, name |-> <<"s","3",".","m","p","3">>,
   artist |-> <<"a","B">>, title |-> <<"X">>, readable |-> TRUE]

\* an audio file mutagen cannot read
F_x ==
  [dir |-> <<>>, name |-> <<"x",".","m","p","3">>,
   artist |-> <<>>, title |-> <<>>, readable |-> FALSE]

F_u ==
  [dir |-> <<>>, name |-> <<"u",".","m","p","3">>,
   artist |-> UNSORTED, title |-> <<"x">>, readable |-> TRUE]

F_n ==
  [dir |-> <<>>, name |-> <<"n",".","t","x","t">>,
   artist |-> <<>>, title |-> <<>>, readable |-> FALSE]

Catalog == {F_s1, F_s2, F_s3, F_x, F_u, F_n}

Trees == {t \in SUBSET Catalog : 1 <= Cardinality(t) /\ Cardinality(t) <= MaxFiles}

\* the environment: USE_OLLAMA, USE_OPENAI, whether OPENAI_API_KEY is
\* non-empty, FUZZY_RATIO in hundredths
Configs ==
  { [USE_OLLAMA |-> FALSE, USE_OPENAI |-> FALSE, OPENAI_API_KEY |-> TRUE,
     FUZZY_RATIO |-> 95],
    [USE_OLLAMA |-> TRUE, USE_OPENAI |-> FALSE, OPENAI_API_KEY |-> TRUE,
     FUZZY_RATIO |-> 95],
    [USE_OLLAMA |-> FALSE, USE_OPENAI |-> TRUE, OPENAI_API_KEY |-> TRUE,
     FUZZY_RATIO |-> 95],
    [USE_OLLAMA |-> TRUE, USE_OPENAI |-> TRUE, OPENAI_API_KEY |-> TRUE,
     FUZZY_RATIO |-> 95],
    [USE_OLLAMA |-> FALSE, USE_OPENAI |-> FALSE, OPENAI_API_KEY |-> TRUE,
     FUZZY_RATIO |-> 100] }

ErrorReply ==
  [kind |-> "error", use_as_is |-> FALSE, artist |-> <<>>, title |-> <<>>]

OllamaReplies ==
  { ErrorReply,
    [kind |-> "json", use_as_is |-> TRUE, artist |-> <<>>, title |-> <<>>] }

OpenAIReplies ==
  { ErrorReply,
    [kind |-> "json", use_as_is |-> TRUE, artist |-> <<>>, title |-> <<>>],
    [kind |-> "json", use_as_is |-> FALSE, artist |-> <<"A","B">>,
     title |-> <<"x">>],
    [kind |-> "json", use_as_is |-> FALSE, artist |-> <<"A","B">>,
     title |-> <<>>] }

\* a service that is switched off sends nothing
RepliesOf(enabled, replies) == IF enabled THEN replies ELSE {ErrorReply}

\* what the file system and mutagen do during one iteration: the copy
\* and the tag rewrite succeed, the rewrite raises, or copy2 raises
IOOutcomes ==
  { [copyOK |-> TRUE, tagOK |-> TRUE], [copyOK |-> TRUE, tagOK |-> FALSE],
    [copyOK |-> FALSE, tagOK |-> FALSE] }

\* probe holds the argument and the results of a helper function that is
\* exercised on its own; inst holds the position of each of two processes
\* running import.py at the same time
VARIABLES tree, cfg, ledger, dest, phase, flags, todo, history, last, probe,
          inst

vars ==
  <<tree, cfg, ledger, dest, phase, flags, todo, history, last, probe, inst>>

\* no process of the concurrent kind is running
NoInst == <<>>

NoProbe == [x |-> <<>>, applied |-> 0, once |-> <<>>, twice |-> <<>>,
            lowered |-> <<>>, raised |-> <<>>]

NoFiles == [p \in {} |-> {}]

NoFile ==
  [dir |-> <<>>, name |-> <<>>, artist |-> <<>>, title |-> <<>>,
   readable |-> FALSE]

\* what the last iteration of the loop did (run 0: none yet)
NoLast ==
  [run |-> 0, f |-> NoFile, outcome |-> "none", inserted |-> <<>>,
   copied |-> {}, overwrote |-> {}, calls |-> <<>>, artist |-> <<>>,
   title |-> <<>>, use_as_is |-> FALSE, dest_path |-> <<>>,
   matched |-> <<>>, scanned |-> FALSE,
   dry_run |-> FALSE, dry_ai |-> FALSE,
   events |-> <<>>, asked |-> <<>>, replies |-> <<>>, halted |-> FALSE,
   left |-> {}, tag_failed |-> FALSE]

Init ==
  /\ tree \in Trees
  /\ cfg \in Configs
  /\ ledger = <<>>
  /\ dest = NoFiles
  /\ phase = "idle"
  /\ flags = [dry_run |-> FALSE, dry_ai |-> FALSE]
  /\ todo = {}
  /\ history = <<>>
  /\ last = NoLast
  /\ probe = NoProbe
  /\ inst = NoInst

\* main() up to the loop: a pass over the tree starts, the n-th
\* invocation at most
StartPassWithin(n) ==
  /\ phase = "idle"
  /\ Len(history) < n
  /\ \E dry_run \in BOOLEAN, dry_ai \in BOOLEAN :
       /\ flags' = [dry_run |-> dry_run, dry_ai |-> dry_ai]
       /\ history' = Append(history, [op |-> "pass", dry_run |-> dry_run,
                                      dry_ai |-> dry_ai, complete |-> FALSE])
  /\ phase' = "running"
  /\ todo' = tree
  /\ UNCHANGED <<inst, probe, tree, cfg, ledger, dest, last>>

StartPass == StartPassWithin(MaxRuns)

\* the iteration of file f gets past the exact check and the type check
\* (lines 590-610)
Extracted(f) ==
  check_db_by_filename_variations(ledger, f.name) = 0 /\ is_audio_file(f.name)

\* the iteration of file f can reach a query function (lines 650, 744)
\* or a copy (lines 816, 874, 889): what the services and the file system
\* would do is chosen only where the iteration can observe it
MayQuery(f) == Extracted(f) /\ (~flags.dry_run \/ flags.dry_ai)

MayCopy(f) == Extracted(f) /\ ~flags.dry_run

NoIO == [copyOK |-> TRUE, tagOK |-> TRUE]

\* one iteration of the loop, for any file os.walk has not yielded yet,
\* with the services answering from the given sets; an exception out of
\* copy2 ends the process
StepWith(ollamaReplies, openaiReplies) ==
  /\ phase = "running"
  /\ \E f \in todo :
     \E ollamaReply \in RepliesOf(cfg.USE_OLLAMA /\ MayQuery(f), ollamaReplies),
        openaiReply \in RepliesOf(cfg.USE_OPENAI /\ MayQuery(f), openaiReplies),
        io \in IF MayCopy(f) THEN IOOutcomes ELSE {NoIO} :
       LET c == [f |-> f, rows |-> ledger, files |-> dest,
                 dry_run |-> flags.dry_run, dry_ai |-> flags.dry_ai,
                 cfg |-> cfg, ollamaReply |-> ollamaReply,
                 openaiReply |-> openaiReply, copyOK |-> io.copyOK,
                 tagOK |-> io.tagOK]
       IN \E res \in {ProcessFile(c)} :
          /\ ledger' = res.rows
          /\ dest' = res.files
          /\ todo' = IF res.halted THEN {} ELSE todo \ {f}
          /\ phase' = IF res.halted THEN "idle" ELSE "running"
          /\ last' =
               [run |-> Len(history), f |-> f, outcome |-> res.outcome,
                inserted |-> SubSeq(res.rows, Len(ledger) + 1, Len(res.rows)),
                copied |-> res.copied, overwrote |-> res.overwrote,
                calls |-> res.calls, artist |-> res.artist,
                title |-> res.title, use_as_is |-> res.use_as_is,
                dest_path |-> res.dest_path,
                matched |-> IF res.matched = 0 THEN <<>>
                            ELSE <<ledger[res.matched]>>,
                scanned |-> res.scanned,
                dry_run |-> flags.dry_run, dry_ai |-> flags.dry_ai,
                events |-> res.events, asked |-> res.asked,
                replies |-> res.replies, halted |-> res.halted,
                left |-> todo \ {f},
                tag_failed |-> res.copied # {} /\ ~io.tagOK
                               /\ res.outcome # "unsorted"]
  /\ UNCHANGED <<inst, probe, tree, cfg, flags, history>>

Step == StepWith(OllamaReplies, OpenAIReplies)

\* the loop is over: sys.exit(exit_code); the record of the last
\* iteration ends with the process
EndPass ==
  /\ phase = "running"
  /\ todo = {}
  /\ phase' = "idle"
  /\ history' = [history EXCEPT ![Len(history)].complete = TRUE]
  /\ last' = NoLast
  /\ UNCHANGED <<inst, probe, tree, cfg, ledger, dest, flags, todo>>

\* the sequences that list each element of set s once
Orders(s) ==
  {o \in [1..Cardinality(s) -> s] : \A i, j \in 1..Cardinality(s) :
                                      o[i] = o[j] => i = j}

\* import.py <source> --bulk-import
BulkImportWithin(n) ==
  /\ phase = "idle"
  /\ Len(history) < n
  /\ \E o \in Orders(tree) :
       ledger' = bulk_import_files_to_db(ledger, [i \in DOMAIN o |-> o[i].name])
  /\ history' = Append(history, [op |-> "bulk_import", dry_run |-> FALSE,
                                 dry_ai |-> FALSE, complete |-> TRUE])
  /\ UNCHANGED <<inst, probe, tree, cfg, dest, phase, flags, todo, last>>

BulkImport == BulkImportWithin(MaxRuns)

\* import.py <source> --cleanup-bulk
CleanupBulkWithin(n) ==
  /\ phase = "idle"
  /\ Len(history) < n
  /\ ledger' = cleanup_bulk_imports(ledger)
  /\ history' = Append(history, [op |-> "cleanup_bulk", dry_run |-> FALSE,
                                 dry_ai |-> FALSE, complete |-> TRUE])
  /\ UNCHANGED <<inst, probe, tree, cfg, dest, phase, flags, todo, last>>

CleanupBulk == CleanupBulkWithin(MaxRuns)

Next == StartPass \/ Step \/ EndPass \/ BulkImport \/ CleanupBulk

Spec == Init /\ [][Next]_vars

\* ------------------------------------------------------------------------
\* The resolver chain in isolation: trees of one file, every kind of
\* answer from either service
\* ------------------------------------------------------------------------

ChainOllamaReplies ==
  OllamaReplies
  \cup { [kind |-> "json", use_as_is |-> FALSE, artist |-> <<"A","B">>,
          title |-> <<"x">>],
         [kind |-> "json", use_as_is |-> FALSE, artist |-> <<>>,
          title |-> <<"x">>] }

ChainOpenAIReplies ==
  OpenAIReplies
  \cup { [kind |-> "json", use_as_is |-> FALSE, artist |-> <<>>,
          title |-> <<"x">>],
         [kind |-> "json_list", use_as_is |-> FALSE, artist |-> <<"A","B">>,
          title |-> <<"x">>] }

InitChain == Init /\ Cardinality(tree) = 1

StepChain == StepWith(ChainOllamaReplies, ChainOpenAIReplies)

NextChain == StartPass \/ StepChain \/ EndPass \/ BulkImport \/ CleanupBulk

SpecChain == InitChain /\ [][NextChain]_vars

\* ------------------------------------------------------------------------
\* Trees with a file whose embedded artist and title read like a reason
\* tag of the ledger
\* ------------------------------------------------------------------------

F_t ==
  [dir |-> <<>>, name |-> <<"t",".","m","p","3">>,
   artist |-> ReasonTag(REASON_not_audio),
   title |-> ReasonTag(REASON_not_audio), readable |-> TRUE]

\* a track of an artist whose name is written in brackets
F_b ==
  [dir |-> <<>>, name |-> <<"b",".","m","p","3">>,
   artist |-> <<"[","b","u","l","k","_","i","m","p","o","r","t","_","x","]">>,
   title |-> <<"x">>, readable |-> TRUE]

TaggedTrees ==
  {t \in SUBSET {F_t, F_b, F_n, F_x} :
     (F_t \in t \/ F_b \in t) /\ Cardinality(t) <= MaxFiles}

InitTagged ==
  /\ tree \in TaggedTrees
  /\ cfg \in Configs
  /\ ledger = <<>>
  /\ dest = NoFiles
  /\ phase = "idle"
  /\ flags = [dry_run |-> FALSE, dry_ai |-> FALSE]
  /\ todo = {}
  /\ history = <<>>
  /\ last = NoLast
  /\ probe = NoProbe
  /\ inst = NoInst

SpecTagged == InitTagged /\ [][Next]_vars

\* ------------------------------------------------------------------------
\* Two processes running import.py <source> <dest> at the same time on
\* one source tree, one destination tree and one ledger, no service
\* enabled, no flag.  Each SQL statement and each file system call is a
\* step of its own in the code; a process here takes the steps of one
\* file in four groups, between which the other process may run.
\* ------------------------------------------------------------------------

Instances == {1, 2}

RaceTrees == {t \in Trees : t \subseteq {F_s1, F_s3, F_x, F_n}}

\* a process between two files
Walking(todoFiles, done) ==
  [pc |-> "walk", todo |-> todoFiles, f |-> NoFile, done |-> done]

InitRace ==
  /\ tree \in RaceTrees
  /\ cfg \in {c \in Configs : ~c.USE_OLLAMA /\ ~c.USE_OPENAI
                              /\ c.FUZZY_RATIO = 95}
  /\ ledger = <<>>
  /\ dest = NoFiles
  /\ phase = "idle"
  /\ flags = [dry_run |-> FALSE, dry_ai |-> FALSE]
  /\ todo = {}
  /\ history = <<>>
  /\ last = NoLast
  /\ probe = NoProbe
  /\ inst = [i \in Instances |-> Walking(tree, {})]

\* what a process notes when it is through with a file
Done(f, outcome, copied, row) ==
  [name |-> f.name, outcome |-> outcome, copied |-> copied, row |-> row]

\* lines 938-948 with a table that refuses a second row of the same
\* original_name
RecordRows_UniqueName(rows, fname, artist, title, dest_path) ==
  IF \E i \in DOMAIN rows : rows[i].original_name = fname THEN rows
  ELSE insert_db(rows, fname, artist, title, dest_path)

\* lines 938-948: the fuzzy check on the pair the file was placed with,
\* then the row that links the name to the match or the import row
RecordRows(rows, fname, artist, title, dest_path) ==
  LET fuzzy_match == check_db_fuzzy(rows, artist, title, 95)
  IN IF fuzzy_match # 0
     THEN insert_db(rows, fname, rows[fuzzy_match].ai_artist,
                    rows[fuzzy_match].ai_title,
                    rows[fuzzy_match].storage_path)
     ELSE insert_db(rows, fname, artist, title, dest_path)

\* lines 586-648: the next file of the walk, the exact check, the type
\* check, extraction and the fuzzy check on the extracted pair
RaceCheck(i) ==
  /\ inst[i].pc = "walk"
  /\ \E f \in inst[i].todo :
       LET meta == get_metadata(f)
           fuzzy_match ==
             IF meta.artist # <<>> /\ meta.title # <<>>
             THEN check_db_fuzzy(ledger, meta.artist, meta.title,
                                 cfg.FUZZY_RATIO)
             ELSE 0
           rest == inst[i].todo \ {f}
           done == inst[i].done
       IN IF check_db_by_filename_variations(ledger, f.name) # 0
          THEN /\ ledger' = ledger
               /\ inst' = [inst EXCEPT ![i] =
                    Walking(rest, done \cup {Done(f, "skip_exact", FALSE, <<>>)})]
          ELSE IF ~is_audio_file(f.name)
          THEN /\ ledger' = insert_db_skipped(ledger, f.name, REASON_not_audio)
               /\ inst' = [inst EXCEPT ![i] =
                    Walking(rest, done \cup {Done(f, "not_audio", FALSE,
                                                  ledger'[Len(ledger')])})]
          ELSE IF fuzzy_match # 0
          THEN /\ ledger' = insert_db(ledger, f.name,
                                      ledger[fuzzy_match].ai_artist,
                                      ledger[fuzzy_match].ai_title,
                                      ledger[fuzzy_match].storage_path)
               /\ inst' = [inst EXCEPT ![i] =
                    Walking(rest, done \cup {Done(f, "fuzzy_raw", FALSE,
                                                  ledger'[Len(ledger')])})]
          ELSE /\ ledger' = ledger
               /\ inst' = [inst EXCEPT ![i] =
                    [pc |-> "checked", todo |-> rest, f |-> f, done |-> done]]
  /\ UNCHANGED <<tree, cfg, dest, phase, flags, todo, history, last, probe>>

\* lines 783-883: the destination path, the duplicate scan, the
\* diversion of a file without artist or title, the test for an existing
\* path
RaceScan(i) ==
  /\ inst[i].pc = "checked"
  /\ LET f == inst[i].f
         meta == get_metadata(f)
         dest_path == DestPath(meta.artist, meta.title, f.name)
         rest == inst[i].todo
         done == inst[i].done
     IN IF DuplicateFound(DOMAIN dest, meta.artist, meta.title)
        THEN /\ ledger' = insert_db_skipped(ledger, f.name, REASON_duplicate)
             /\ dest' = dest
             /\ inst' = [inst EXCEPT ![i] =
                  Walking(rest, done \cup {Done(f, "duplicate", FALSE,
                                                ledger'[Len(ledger')])})]
        ELSE IF ~(meta.artist # <<>> /\ meta.title # <<>>)
        THEN /\ dest' = CopyRaw(dest, UnsortedPath(f), f)
             /\ ledger' = insert_db_skipped(ledger, f.name, REASON_no_metadata)
             /\ inst' = [inst EXCEPT ![i] =
                  Walking(rest, done \cup {Done(f, "unsorted", TRUE,
                                                ledger'[Len(ledger')])})]
        ELSE IF dest_path \in DOMAIN dest
        THEN /\ UNCHANGED <<ledger, dest>>
             /\ inst' = [inst EXCEPT ![i] =
                  Walking(rest, done \cup {Done(f, "exists_skip", FALSE, <<>>)})]
        ELSE /\ UNCHANGED <<ledger, dest>>
             /\ inst' = [inst EXCEPT ![i].pc = "clear"]
  /\ UNCHANGED <<tree, cfg, phase, flags, todo, history, last, probe>>

\* lines 886-936: copy2 and the tag rewrite
RaceCopy(i) ==
  /\ inst[i].pc = "clear"
  /\ LET f == inst[i].f
         meta == get_metadata(f)
     IN dest' = CopyInto(dest, DestPath(meta.artist, meta.title, f.name), f,
                         meta.artist, meta.title, TRUE)
  /\ inst' = [inst EXCEPT ![i].pc = "copied"]
  /\ UNCHANGED <<tree, cfg, ledger, phase, flags, todo, history, last, probe>>

\* lines 938-948: the row of the file
RaceRecord(i) ==
  /\ inst[i].pc = "copied"
  /\ LET f == inst[i].f
         meta == get_metadata(f)
     IN /\ ledger' = RecordRows(ledger, f.name, meta.artist, meta.title,
                                DestPath(meta.artist, meta.title, f.name))
        /\ inst' = [inst EXCEPT ![i] =
             Walking(inst[i].todo,
                     inst[i].done
                     \cup {Done(f, "copied", TRUE,
                                IF Len(ledger') > Len(ledger)
                                THEN ledger'[Len(ledger')] ELSE <<>>)})]
  /\ UNCHANGED <<tree, cfg, dest, phase, flags, todo, history, last, probe>>

NextRace ==
  \E i \in Instances :
    RaceCheck(i) \/ RaceScan(i) \/ RaceCopy(i) \/ RaceRecord(i)

SpecRace == InitRace /\ [][NextRace]_vars

\* ------------------------------------------------------------------------
\* Trees with files of one name in several directories
\* ------------------------------------------------------------------------

\* another track than F_s1 under the same file name, in directory d
F_d ==
  [dir |-> <<"d">>, name |-> <<"s","1",".","m","p","3">>,
   artist |-> <<"C","d">>, title |-> <<"y">>, readable |-> TRUE]

\* a third track whose name differs from theirs in letter case only
F_e ==
  [dir |-> <<"e">>, name |-> <<"S","1",".","M","P","3">>,
   artist |-> <<"E","f">>, title |-> <<"z">>, readable |-> TRUE]

NameTrees ==
  {t \in SUBSET {F_s1, F_d, F_e} : Cardinality(t) = MaxFiles}

InitNames ==
  /\ tree \in NameTrees
  /\ cfg \in Configs
  /\ ledger = <<>>
  /\ dest = NoFiles
  /\ phase = "idle"
  /\ flags = [dry_run |-> FALSE, dry_ai |-> FALSE]
  /\ todo = {}
  /\ history = <<>>
  /\ last = NoLast
  /\ probe = NoProbe
  /\ inst = NoInst

SpecNames == InitNames /\ [][Next]_vars

\* ------------------------------------------------------------------------
\* normalize_string on its own: every string of up to MaxKeyLen
\* characters of KeyAlphabet, normalised once and then once more
\* ------------------------------------------------------------------------

MaxKeyLen == 5

KeyAlphabet == {"a", "B", " ", "_", "!", "U+00E9"}

KeyInputs == UNION {[1..n -> KeyAlphabet] : n \in 0..MaxKeyLen}

\* str.upper()
Upper(s) ==
  [i \in 1..Len(s) |->
     IF \E k \in 1..26 : LowerLetters[k] = s[i]
     THEN UpperLetters[CHOOSE k \in 1..26 : LowerLetters[k] = s[i]]
     ELSE s[i]]

InitKey ==
  /\ tree = {}
  /\ cfg \in {c \in Configs : ~c.USE_OLLAMA /\ ~c.USE_OPENAI
                              /\ c.FUZZY_RATIO = 95}
  /\ ledger = <<>>
  /\ dest = NoFiles
  /\ phase = "idle"
  /\ flags = [dry_run |-> FALSE, dry_ai |-> FALSE]
  /\ todo = {}
  /\ history = <<>>
  /\ last = NoLast
  /\ probe \in {[NoProbe EXCEPT !.x = x] : x \in KeyInputs}
  /\ inst = NoInst

\* normalize_string(x), of x as given, lower-cased and upper-cased
KeyOnce ==
  /\ probe.applied = 0
  /\ probe' = [probe EXCEPT !.applied = 1,
                            !.once = normalize_string(probe.x),
                            !.lowered = normalize_string(Lower(probe.x)),
                            !.raised = normalize_string(Upper(probe.x))]
  /\ UNCHANGED <<inst, tree, cfg, ledger, dest, phase, flags, todo, history, last>>

\* normalize_string applied to its own result
KeyTwice ==
  /\ probe.applied = 1
  /\ probe' = [probe EXCEPT !.applied = 2,
                            !.twice = normalize_string(probe.once)]
  /\ UNCHANGED <<inst, tree, cfg, ledger, dest, phase, flags, todo, history, last>>

NextKey == KeyOnce \/ KeyTwice

SpecKey == InitKey /\ [][NextKey]_vars

\* ------------------------------------------------------------------------
\* Seeding and cleaning the ledger around passes, in longer sessions
\* ------------------------------------------------------------------------

MaxSeedRuns == 4

\* trees of up to MaxFiles files with no service, trees of one file with
\* the OpenAI service
InitSeed ==
  /\ Init
  /\ ~cfg.USE_OLLAMA
  /\ cfg.FUZZY_RATIO = 95
  /\ cfg.USE_OPENAI => Cardinality(tree) = 1

StartPassSeed == StartPassWithin(MaxSeedRuns)

BulkImportSeed == BulkImportWithin(MaxSeedRuns)

CleanupBulkSeed == CleanupBulkWithin(MaxSeedRuns)

NextSeed ==
  StartPassSeed \/ Step \/ EndPass \/ BulkImportSeed \/ CleanupBulkSeed

SpecSeed == InitSeed /\ [][NextSeed]_vars

\* ------------------------------------------------------------------------
\* Properties
\* ------------------------------------------------------------------------

\* a bracketed reason tag such as [duplicate]
IsSuppressionTag(p) == p # <<>> /\ Head(p) = "[" /\ p[Len(p)] = "]"

SuppressionRow(name, reason) ==
  [original_name |-> name, ai_artist |-> ReasonTag(reason),
   ai_title |-> ReasonTag(reason), storage_path |-> ReasonTag(reason)]

\* the destination files as they were before the last iteration
FilesBefore == (DOMAIN dest \ last.copied) \cup last.overwrote

\* the last iteration belongs to a pass with neither --dry-run nor --dry-ai
NormalIteration == last.run > 0 /\ ~last.dry_run /\ ~last.dry_ai

\* the last iteration belongs to a pass that directly follows a complete
\* pass with neither flag over the same tree
FollowsCompleteNormalPass ==
  /\ last.run >= 2
  /\ history[last.run - 1].op = "pass"
  /\ history[last.run - 1].complete
  /\ ~history[last.run - 1].dry_run
  /\ ~history[last.run - 1].dry_ai

\* C1: in a pass that follows a complete non-dry pass over the unchanged
\* tree, every file is stopped by the exact-ledger check: no copy and no
\* resolver call.
C1_SecondPassAllExact ==
  FollowsCompleteNormalPass =>
    /\ last.outcome = "skip_exact"
    /\ last.copied = {}
    /\ last.calls = <<>>

\* C2: every import row (storage path not a reason tag) inserted by an
\* iteration names a file that exists in the destination tree at that
\* moment, in every run mode and for fuzzy-linked rows.
C2_ImportRowsNameExistingFiles ==
  \A i \in DOMAIN last.inserted :
    ~IsSuppressionTag(last.inserted[i].storage_path)
      => last.inserted[i].storage_path \in DOMAIN dest

\* C3: an iteration that ends in a fuzzy match, on the extracted or on the
\* resolved pair, ledgers the file's name with the matched row's storage
\* path and writes no file to the destination tree.
C3_FuzzyMatchWritesNoFile ==
  last.outcome \in {"fuzzy_raw", "fuzzy_resolved"} =>
    /\ last.copied = {}
    /\ Len(last.inserted) = 1
    /\ last.inserted[1].original_name = last.f.name
    /\ last.inserted[1].storage_path = last.matched[1].storage_path

\* C4: no copy, into an artist directory or into _Unsorted, targets a
\* path that already exists.
C4_CopiesNeverOverwrite == last.overwrote = {}

\* the terminal outcomes of a normal pass that C5 lists, the exact-ledger
\* skip aside
RecordingOutcomes ==
  {"not_audio", "fuzzy_raw", "fuzzy_resolved", "duplicate", "exists_skip",
   "unsorted", "copied_as_is", "imported"}

\* C5: in a normal pass every terminal outcome other than the
\* exact-ledger skip writes exactly one ledger row for the file, and the
\* exact-ledger skip writes none.
C5_OneRowPerOutcome ==
  NormalIteration =>
    /\ last.outcome = "skip_exact" => Len(last.inserted) = 0
    /\ last.outcome \in RecordingOutcomes =>
         /\ Len(last.inserted) = 1
         /\ last.inserted[1].original_name = last.f.name

\* C6: an iteration of a pass run with --dry-run copies no file and calls
\* no resolver service, whatever the other flags and services.
C6_DryRunNoCopyNoCall ==
  (last.run > 0 /\ last.dry_run) => (last.copied = {} /\ last.calls = <<>>)

\* C7: an iteration of a pass run with --dry-ai copies no file into the
\* destination tree.
C7_DryAiNoCopy ==
  (last.run > 0 /\ last.dry_ai) => last.copied = {}

\* the threshold check_db_fuzzy was called with at the checkpoint where
\* the last iteration matched
MatchThreshold ==
  IF last.outcome = "fuzzy_raw" THEN cfg.FUZZY_RATIO ELSE 95

\* C8: a file is skipped or linked by a fuzzy match only if the matched
\* row meets the threshold on the artist and, independently, on the
\* title.
C8_FuzzyNeedsBothFields ==
  last.outcome \in {"fuzzy_raw", "fuzzy_resolved"} =>
    /\ Len(last.matched) = 1
    /\ is_similar(last.artist, last.matched[1].ai_artist, MatchThreshold)
    /\ is_similar(last.title, last.matched[1].ai_title, MatchThreshold)

\* C8 witness: a file was linked to the row of another file by a fuzzy
\* match.
C8_Witness ==
  /\ last.outcome \in {"fuzzy_raw", "fuzzy_resolved"}
  /\ Len(last.matched) = 1
  /\ last.matched[1].original_name # last.f.name
  /\ last.inserted # <<>>

\* the audio files that stood in the artist directory of the last file
\* before its iteration and whose stem has the identity key of its title
SameTitleFilesBefore ==
  {p \in FilesBefore :
     /\ \E n \in ListDir({p}, DestDir(last.artist)) : PathJoin(DestDir(last.artist), n) = p
     /\ Lower(SplitextExt(Basename(p))) \in AUDIO_EXTS
     /\ normalize_string(SplitextRoot(Basename(p))) = normalize_string(last.title)}

\* C9: when the duplicate scan runs for a file with a title and the
\* artist directory already holds an audio file whose stem has the
\* identity key of that title, whatever its extension, the file is not
\* copied and exactly one duplicate row is written for it.
C9_DuplicateScan ==
  (last.scanned /\ last.title # <<>> /\ SameTitleFilesBefore # {}) =>
    /\ last.outcome = "duplicate"
    /\ last.copied = {}
    /\ last.inserted = <<SuppressionRow(last.f.name, REASON_duplicate)>>

\* C9 witness: a file was found to duplicate a file of another extension.
C9_Witness ==
  /\ last.outcome = "duplicate"
  /\ \E p \in SameTitleFilesBefore :
       Lower(SplitextExt(Basename(p))) # Lower(SplitextExt(last.f.name))

\* C10: a file that leaves the resolver chain without an artist or
\* without a title is copied only to _Unsorted/<original name>, with a
\* no_metadata row, whatever verdict the chain returned.
C10_UnresolvedGoesUnsorted ==
  (last.scanned /\ (last.artist = <<>> \/ last.title = <<>>)) =>
    /\ last.copied \subseteq {UnsortedPath(last.f)}
    /\ last.copied # {} =>
         last.inserted = <<SuppressionRow(last.f.name, REASON_no_metadata)>>


\* what get_metadata gave for the file of the last iteration
Embedded == get_metadata(last.f)

\* the positions of an event in the record of the last iteration
Positions(ev) == {i \in DOMAIN last.events : last.events[i] = ev}

QueryPositions == Positions("ollama") \cup Positions("openai")

\* C17: in every iteration the exact-ledger lookup comes before
\* extraction and before any request to a service; when the extracted
\* artist and title are both present the fuzzy lookup on them comes
\* before any request; an iteration stopped by either lookup sends no
\* request.
C17_LookupsPrecedeResolution ==
  last.run > 0 =>
    /\ last.events # <<>> /\ last.events[1] = EV_lookup_exact
    /\ \A i \in Positions(EV_get_metadata) \cup QueryPositions :
         \E j \in Positions(EV_lookup_exact) : j < i
    /\ (Embedded.artist # <<>> /\ Embedded.title # <<>>) =>
         \A i \in QueryPositions : \E j \in Positions(EV_lookup_fuzzy) : j < i
    /\ last.outcome \in {"skip_exact", "fuzzy_raw"} =>
         (last.calls = <<>> /\ QueryPositions = {})

\* C17 witness: with a service enabled and no --dry-run, a tagged file
\* was stopped by the fuzzy lookup on its extracted pair.
C17_Witness ==
  /\ last.outcome = "fuzzy_raw"
  /\ cfg.USE_OLLAMA \/ cfg.USE_OPENAI
  /\ ~last.dry_run
  /\ Positions(EV_lookup_fuzzy) # {}

\* the verdict a reply carries under the service contract
UseAsIsReply(reply) == reply.kind = "json" /\ reply.use_as_is

ResolvedReply(reply) ==
  /\ reply.kind = "json"
  /\ ~reply.use_as_is
  /\ reply.artist # <<>>
  /\ reply.title # <<>>

Decided(reply) == UseAsIsReply(reply) \/ ResolvedReply(reply)

\* the last iteration went through the resolver chain of lines 650-721
\* (not the --dry-ai preview) and sent at least one request
ChainRan == last.run > 0 /\ last.scanned /\ Len(last.replies) >= 1

\* C18: when the first service asked answers use-as-is, no further
\* service is asked and the artist and title the iteration goes on with
\* are the embedded ones.
C18_UseAsIsStopsChain ==
  (ChainRan /\ UseAsIsReply(last.replies[1])) =>
    /\ Len(last.calls) = 1
    /\ last.use_as_is
    /\ last.artist = Embedded.artist
    /\ last.title = Embedded.title

\* the first reply of the last iteration that carries a decision, 0 if
\* none does
FirstDecided ==
  IF \E i \in DOMAIN last.replies : Decided(last.replies[i])
  THEN CHOOSE i \in DOMAIN last.replies :
         /\ Decided(last.replies[i])
         /\ \A j \in DOMAIN last.replies : Decided(last.replies[j]) => i <= j
  ELSE 0

\* C19: when the deciding reply, of either service, is well formed, not
\* use-as-is and carries an artist and a title, the iteration goes on
\* with exactly these two values; when no reply carries both (and none
\* says use-as-is), it goes on with the embedded values.
C19_ResolvedReplaces ==
  ChainRan =>
    /\ (FirstDecided # 0 /\ ResolvedReply(last.replies[FirstDecided])) =>
         /\ last.artist = last.replies[FirstDecided].artist
         /\ last.title = last.replies[FirstDecided].title
    /\ FirstDecided = 0 =>
         /\ last.artist = Embedded.artist
         /\ last.title = Embedded.title

\* C20: with both services enabled, the second is asked exactly when the
\* first reply carries neither a use-as-is verdict nor both an artist
\* and a title, and it is then asked with the arguments the first was
\* asked with.
C20_SecondAskedIffFirstUndecided ==
  (ChainRan /\ cfg.USE_OLLAMA /\ cfg.USE_OPENAI) =>
    /\ Len(last.calls) = 2 <=> ~Decided(last.replies[1])
    /\ Len(last.calls) = 2 => last.asked[2] = last.asked[1]

\* the kinds of fault that occurred in the last iteration: mutagen could
\* not read the source file, a service did not answer, copy2 raised, the
\* tag rewrite of the copy raised
LastFaults ==
  {k \in {"extraction", "resolver", "copy", "tag"} :
     \/ k = "extraction" /\ Positions(EV_get_metadata) # {} /\ ~last.f.readable
     \/ k = "resolver" /\ \E i \in DOMAIN last.replies :
                             last.replies[i].kind # "json"
     \/ k = "copy" /\ last.outcome = "copy_error"
     \/ k = "tag" /\ last.tag_failed}

\* C13: whatever fault occurs while one file is processed, the pass
\* does not halt while files of the tree are left.
C13_NoFaultHaltsPass ==
  (last.run > 0 /\ LastFaults # {} /\ last.left # {}) => ~last.halted

\* a tag value that is its own path component: no character that
\* sanitize_filename removes, no semicolon, no blank at either end
PathClean(s) ==
  /\ s # <<>>
  /\ \A i \in DOMAIN s : s[i] \notin IllegalChars \cup {";"}
  /\ Strip(s) = s

\* the last iteration ran in a normal pass with no service enabled, on
\* an empty ledger and an empty destination, for a readable file that
\* carries an artist and a title, and copy2 did not raise
TaggedFileAlone ==
  /\ NormalIteration
  /\ ~cfg.USE_OLLAMA /\ ~cfg.USE_OPENAI
  /\ Len(ledger) = Len(last.inserted)
  /\ FilesBefore = {}
  /\ last.f.readable
  /\ PathClean(last.f.artist) /\ PathClean(last.f.title)
  /\ is_audio_file(last.f.name)
  /\ ~last.halted

\* dest_root/<artist>/<title>.<ext> for the file of the last iteration
TaggedPath ==
  PathJoin(PathJoin(DEST, last.f.artist),
           last.f.title \o SplitextExt(last.f.name))

LayoutPath ==
  PathJoin(PathJoin(DEST, sanitize_filename(SplitFirst(last.artist, ";"))),
           sanitize_filename(last.title) \o SplitextExt(last.f.name))

\* C16: every copy that is not a diversion to _Unsorted goes to exactly
\* the layout path of the artist and title the iteration ended with.
C16_PlacedAtLayoutPath ==
  (last.copied # {} /\ last.outcome # "unsorted") =>
    last.copied = {LayoutPath}

\* the ledger as it was before the last iteration
RowsBefore == SubSeq(ledger, 1, Len(ledger) - Len(last.inserted))

\* the reasons for which the name of the last file was suppressed before
\* its iteration
ReasonsBefore ==
  {r \in {REASON_not_audio, REASON_duplicate, REASON_no_metadata,
          REASON_bulk_import_audio, REASON_bulk_import_non_audio} :
     \E i \in DOMAIN RowsBefore :
       /\ RowsBefore[i].original_name = last.f.name
       /\ RowsBefore[i].ai_artist = ReasonTag(r)}

\* the files of the tree that stand in _Unsorted
Diverted ==
  {f \in tree : /\ UnsortedPath(f) \in DOMAIN dest
                /\ dest[UnsortedPath(f)].origin = SourcePath(f)
                /\ ~(f.artist # <<>> /\ f.title # <<>>)}

IsBulkRow(row) ==
  row.ai_artist \in {ReasonTag(REASON_bulk_import_audio),
                     ReasonTag(REASON_bulk_import_non_audio)}

\* the step is a --cleanup-bulk invocation
CleanupStep ==
  /\ Len(history') = Len(history) + 1
  /\ history'[Len(history')].op = "cleanup_bulk"

\* the step is an iteration of a normal pass
NormalIterationStep ==
  /\ phase = "running"
  /\ todo' # todo
  /\ ~flags.dry_run /\ ~flags.dry_ai

\* C12: cleanup_bulk removes exactly the bulk-import rows, so that in
\* the normal pass that follows a file is stopped at the exact check if
\* it has a row left (such as a duplicate, no_metadata or not_audio
\* suppression) and is processed if its only rows were bulk-import
\* suppressions.
C12_CleanupRestoresEligibility ==
  [][ /\ CleanupStep =>
           ledger' = SelectSeq(ledger, LAMBDA row : ~IsBulkRow(row))
      /\ NormalIterationStep =>
           LET names == {ledger[i].original_name : i \in DOMAIN ledger}
           IN /\ last'.f.name \in names => last'.outcome = "skip_exact"
              /\ last'.f.name \notin names =>
                   /\ last'.outcome # "skip_exact"
                   /\ is_audio_file(last'.f.name) =>
                        EV_get_metadata \in {last'.events[i] :
                                                i \in DOMAIN last'.events}
    ]_vars

\* C12 witness: after bulk_seed and cleanup_bulk, a file that had been
\* seeded is processed again by a normal pass while the ledger still
\* holds another file's suppression of an earlier pass.
C12_Witness ==
  /\ last.run >= 4
  /\ history[last.run - 2].op = "bulk_import"
  /\ history[last.run - 1].op = "cleanup_bulk"
  /\ NormalIteration
  /\ last.outcome \in {"imported", "unsorted", "not_audio", "duplicate"}
  /\ \E i \in DOMAIN RowsBefore : IsSuppressionTag(RowsBefore[i].ai_artist)

\* C14: normalize_string applied to its own result gives that result
\* again, also when punctuation stands between blanks, dashes or
\* underscores; and strings that differ only in letter case have the
\* same key.
C14_KeyIdempotent ==
  /\ probe.applied >= 1 =>
       (probe.lowered = probe.once /\ probe.raised = probe.once)
  /\ probe.applied = 2 => probe.twice = probe.once

\* a reply that is no answer under the service contract: a timeout or
\* network failure, or a JSON object whose fields are not strings
FaultyReply(reply) == reply.kind # "json"

\* the last iteration sent at least one request from the resolver chain
\* of lines 650-721
ChainAsked == last.run > 0 /\ ~last.dry_run /\ Len(last.replies) >= 1

\* C21: when a service's reply is a timeout, a network failure or
\* malformed, the next enabled service is asked; when every reply of the
\* chain is of that kind the iteration goes on with the embedded values
\* and no use-as-is verdict; and (copy2 not raising) the iteration ends
\* in an outcome of the state machine, the pass not halted.
C21_ServiceFaultIsNoAnswer ==
  (ChainAsked /\ last.outcome # "copy_error"
     /\ \E i \in DOMAIN last.replies : FaultyReply(last.replies[i])) =>
    /\ (cfg.USE_OLLAMA /\ cfg.USE_OPENAI /\ FaultyReply(last.replies[1])) =>
         last.calls = <<"ollama", "openai">>
    /\ (\A i \in DOMAIN last.replies : FaultyReply(last.replies[i])) =>
         /\ ~last.use_as_is
         /\ last.artist = Embedded.artist
         /\ last.title = Embedded.title
    /\ ~last.halted
    /\ last.outcome \in {"duplicate", "exists_skip", "copied_as_is",
                         "unsorted", "would_unsorted", "imported",
                         "fuzzy_resolved"}

\* C22: when the tag rewrite of a copy fails, the pass goes on and the
\* iteration inserts exactly one import row: the file's name with the
\* artist, the title and the destination path the iteration ended with,
\* after a use-as-is verdict as after resolution.
C22_TagFaultStillLedgered ==
  last.tag_failed =>
    /\ ~last.halted
    /\ last.copied = {last.dest_path}
    /\ last.inserted =
         <<[original_name |-> last.f.name, ai_artist |-> last.artist,
            ai_title |-> last.title, storage_path |-> last.dest_path]>>

\* C23: a row returned by the fuzzy lookup is never a suppression row,
\* so the row a fuzzy outcome inserts never carries a bracketed reason
\* tag as artist, title or storage path.
C23_FuzzySkipsSuppressionRows ==
  /\ last.matched # <<>> => ~IsSuppressionTag(last.matched[1].ai_artist)
  /\ last.outcome \in {"fuzzy_raw", "fuzzy_resolved"} =>
       \A i \in DOMAIN last.inserted :
         /\ ~IsSuppressionTag(last.inserted[i].ai_artist)
         /\ ~IsSuppressionTag(last.inserted[i].ai_title)
         /\ ~IsSuppressionTag(last.inserted[i].storage_path)

\* a suppression row written by bulk_seed
BulkSuppressionRow(row) ==
  \/ row = SuppressionRow(row.original_name, REASON_bulk_import_audio)
  \/ row = SuppressionRow(row.original_name, REASON_bulk_import_non_audio)

\* the rows of the ledger are kept, in order, as the first rows of the
\* next ledger
RowsKept == Len(ledger') >= Len(ledger) /\ SubSeq(ledger', 1, Len(ledger)) = ledger

\* C24: every step either keeps all rows as they are and at most
\* appends rows, or is a cleanup_bulk invocation that removes exactly
\* the bulk_import_audio and bulk_import_non_audio suppression rows and
\* keeps every other row as it is.
C24_OnlyCleanupDeletesBulkRows ==
  [][ IF CleanupStep
      THEN ledger' = SelectSeq(ledger, LAMBDA row : ~BulkSuppressionRow(row))
      ELSE RowsKept
    ]_vars

\* the step is a --bulk-import invocation
BulkSeedStep ==
  /\ Len(history') = Len(history) + 1
  /\ history'[Len(history')].op = "bulk_import"

\* the rows a step appended
Appended == SubSeq(ledger', Len(ledger) + 1, Len(ledger'))

\* the row bulk_seed writes for a file, by its type
SeedRow(f) ==
  SuppressionRow(f.name, IF is_audio_file(f.name) THEN REASON_bulk_import_audio
                         ELSE REASON_bulk_import_non_audio)

\* every file of the tree is matched by the exact lookup
TreeSeeded ==
  \A f \in tree : check_db_by_filename_variations(ledger, f.name) # 0

\* C25: a bulk_seed keeps the rows there are and appends, for each file
\* of the tree the exact lookup does not match, exactly one row, tagged
\* bulk_import_audio or bulk_import_non_audio by the file's type, and
\* nothing else; it copies nothing and runs no iteration; on a tree
\* whose files are all matched it appends nothing; and every iteration
\* of a pass over such a tree stops at the exact lookup: no extraction,
\* no request, no copy, no row.
C25_BulkSeedFreezesTree ==
  [][ /\ BulkSeedStep =>
           /\ RowsKept
           /\ \A f \in tree :
                LET n == Cardinality({i \in DOMAIN Appended :
                                        Appended[i].original_name = f.name})
                IN IF check_db_by_filename_variations(ledger, f.name) # 0
                   THEN n = 0
                   ELSE /\ n = 1
                        /\ \E i \in DOMAIN Appended : Appended[i] = SeedRow(f)
           /\ \A i \in DOMAIN Appended :
                \E f \in tree : Appended[i].original_name = f.name
           /\ TreeSeeded => ledger' = ledger
           /\ TreeSeeded'
           /\ UNCHANGED <<dest, last>>
      /\ (TreeSeeded /\ phase = "running" /\ todo' # todo) =>
           /\ last'.outcome = "skip_exact"
           /\ last'.events = <<EV_lookup_exact>>
           /\ last'.calls = <<>>
           /\ last'.copied = {}
           /\ UNCHANGED <<ledger, dest>>
    ]_vars

\* C25 witness: a tree was seeded, seeded again without a new row, and a
\* pass that copies when it places a file stopped a file at the exact
\* lookup on its bulk row.
C25_Witness ==
  /\ last.run = 3
  /\ history[1].op = "bulk_import"
  /\ history[2].op = "bulk_import"
  /\ ~last.dry_run /\ ~last.dry_ai
  /\ last.outcome = "skip_exact"
  /\ Len(ledger) = Cardinality(tree)
  /\ \E i \in DOMAIN ledger : ledger[i] = SeedRow(last.f)

\* the paths of the files of the source tree
SourcePaths == {SourcePath(f) : f \in tree}

\* the paths a step wrote: created, or given another content
Written ==
  {p \in DOMAIN dest' : p \notin DOMAIN dest \/ dest'[p] # dest[p]}

\* C26: no step, in any run mode, changes the files of the source tree
\* or their tags; every path a step writes (by copy2 or by the tag
\* rewrite) lies under the destination root and is no source file, and
\* no path is removed.
C26_SourceTreeUntouched ==
  [][ /\ tree' = tree
      /\ DOMAIN dest \subseteq DOMAIN dest'
      /\ \A p \in Written :
           /\ IsPrefix(DEST \o <<"/">>, p)
           /\ p \notin SourcePaths
           /\ dest'[p].origin \in SourcePaths
    ]_vars

\* C26 witness: a copy stands in the destination tree with rewritten
\* tags that differ from those its source file still carries.
C26_Witness ==
  /\ last.outcome = "imported"
  /\ last.f \in tree
  /\ \E p \in last.copied :
       /\ p \in DOMAIN dest
       /\ dest[p].origin = SourcePath(last.f)
       /\ dest[p].artist # last.f.artist

\* what the two processes noted for a file they both took past the test
\* for an existing destination path
RacedPairs ==
  {pair \in inst[1].done \X inst[2].done :
     /\ pair[1].name = pair[2].name
     /\ pair[1].outcome = "copied"
     /\ pair[2].outcome = "copied"}

\* C27: when both processes took the same file past the exact check,
\* the fuzzy check and the destination tests (which only happens when
\* neither had written its row before the other's checks), both copied
\* it and both wrote a row for its name that points into the
\* destination tree: the ledger holds two such rows for the one file.
C27_RaceCopiesTwice ==
  \A pair \in RacedPairs :
    /\ pair[1].copied /\ pair[2].copied
    /\ \A k \in 1..2 :
         /\ pair[k].row # <<>>
         /\ pair[k].row.original_name = pair[k].name
         /\ ~IsSuppressionTag(pair[k].row.storage_path)
    /\ Cardinality({n \in DOMAIN ledger :
                      /\ ledger[n].original_name = pair[1].name
                      /\ ~IsSuppressionTag(ledger[n].storage_path)}) >= 2

\* C27 witness: both processes copied the same file and wrote a row for
\* it.
C27_Witness ==
  /\ inst # NoInst
  /\ RacedPairs # {}
  /\ \A i \in Instances : inst[i].pc = "walk" /\ inst[i].todo = {}

\* C28: an iteration appends at most one row to the ledger, keeps the
\* rows there were, and a row it appends carries the name of its file,
\* in every run mode.
C28_AtMostOneRowPerFile ==
  last.run > 0 =>
    /\ Len(last.inserted) <= 1
    /\ \A i \in DOMAIN last.inserted :
         last.inserted[i].original_name = last.f.name

\* C28 witness: an iteration that went through the copy and the fuzzy
\* check that follows it linked its file to a row and wrote that one row.
C28_Witness ==
  /\ last.outcome = "fuzzy_resolved"
  /\ Len(last.inserted) = 1

\* C29: an iteration of a pass run with --dry-run appends no row to the
\* ledger, so that the ledger a later pass starts from is the one the
\* dry run found.
C29_DryRunLeavesLedger ==
  (last.run > 0 /\ last.dry_run) => last.inserted = <<>>

\* every invocation so far was a pass with neither --dry-run nor --dry-ai
OnlyNormalPasses ==
  \A i \in DOMAIN history :
    history[i].op = "pass" /\ ~history[i].dry_run /\ ~history[i].dry_ai

\* C30: after passes without dry flags, every file of the destination
\* tree outside _Unsorted is the storage path of at least one row of the
\* ledger.
C30_CopiesAreLedgered ==
  OnlyNormalPasses =>
    \A p \in DOMAIN dest :
      IsPrefix(PathJoin(DEST, UNSORTED) \o <<"/">>, p)
      \/ \E i \in DOMAIN ledger : ledger[i].storage_path = p

\* the files of the tree, other than the one of the last iteration, that
\* have its name up to letter case and a row under their name from
\* before that iteration (read while no later invocation has changed the
\* ledger)
LedgeredNamesakes ==
  {g \in tree :
     /\ g # last.f
     /\ Lower(g.name) = Lower(last.f.name)
     /\ \E i \in DOMAIN RowsBefore : RowsBefore[i].original_name = g.name}

\* C31: when another file of the tree with the same name, literally or
\* up to letter case, has a row in the ledger, the iteration stops at
\* the exact check: no extraction, no request, no copy, no row, in the
\* pass that wrote the row and in every later one, whatever track the
\* file carries.
C31_SameNameSkipped ==
  (last.run > 0 /\ last.run = Len(history) /\ LedgeredNamesakes # {}) =>
    /\ last.outcome = "skip_exact"
    /\ last.events = <<EV_lookup_exact>>
    /\ last.calls = <<>>
    /\ last.copied = {}
    /\ last.inserted = <<>>

\* C31 witness: in the first pass a file was stopped on the row of a
\* file in another directory whose name differs in letter case and whose
\* tags name another track.
C31_Witness ==
  /\ last.run = 1
  /\ last.outcome = "skip_exact"
  /\ \E g \in LedgeredNamesakes :
       /\ g.dir # last.f.dir
       /\ g.name # last.f.name
       /\ g.artist # last.f.artist

\* ------------------------------------------------------------------------
\* The two fuzzy checkpoints under several values of FUZZY_RATIO, with a
\* service that names artists one letter apart
\* ------------------------------------------------------------------------

\* OpenAI alone, FUZZY_RATIO=0.5, the default 0.95 and 1.0
RatioConfigs ==
  { [USE_OLLAMA |-> FALSE, USE_OPENAI |-> TRUE, OPENAI_API_KEY |-> TRUE,
     FUZZY_RATIO |-> t] : t \in {50, 95, 100} }

RatioOpenAIReplies ==
  OpenAIReplies
  \cup { [kind |-> "json", use_as_is |-> FALSE, artist |-> <<"A","c">>,
          title |-> <<"x">>] }

RatioTrees == {t \in SUBSET {F_s1, F_x, F_u} : Cardinality(t) = MaxFiles}

InitRatio ==
  /\ tree \in RatioTrees
  /\ cfg \in RatioConfigs
  /\ ledger = <<>>
  /\ dest = NoFiles
  /\ phase = "idle"
  /\ flags = [dry_run |-> FALSE, dry_ai |-> FALSE]
  /\ todo = {}
  /\ history = <<>>
  /\ last = NoLast
  /\ probe = NoProbe
  /\ inst = NoInst

StepRatio == StepWith(OllamaReplies, RatioOpenAIReplies)

NextRatio == StartPass \/ StepRatio \/ EndPass \/ BulkImport \/ CleanupBulk

SpecRatio == InitRatio /\ [][NextRatio]_vars

\* the iteration ran the fuzzy check on the resolved pair (line 939)
PostChecked ==
  /\ last.run > 0
  /\ last.run = Len(history)
  /\ last.outcome \in {"imported", "fuzzy_resolved"}

\* C32: the fuzzy check on the resolved pair gives the verdict that the
\* check on the raw pair gives for the same pair and ledger, i.e. the one
\* at the configured FUZZY_RATIO: the iteration is linked to a row exactly
\* when some row is similar to the pair at FUZZY_RATIO
C32_SameThresholdAtBothChecks ==
  PostChecked =>
    ((last.outcome = "fuzzy_resolved")
       <=> (check_db_fuzzy(RowsBefore, last.artist, last.title,
                           cfg.FUZZY_RATIO) # 0))

\* ------------------------------------------------------------------------
\* Trees with a file whose artist or title tag holds nothing but
\* characters that sanitize_filename removes
\* ------------------------------------------------------------------------

F_q1 ==
  [dir |-> <<>>, name |-> <<"q","1",".","m","p","3">>,
   artist |-> <<"?">>, title |-> <<"x">>, readable |-> TRUE]

F_q2 ==
  [dir |-> <<>>, name |-> <<"q","2",".","m","p","3">>,
   artist |-> <<"A","b">>, title |-> <<"?">>, readable |-> TRUE]

BlankTrees ==
  {t \in SUBSET {F_q1, F_q2, F_s1, F_x} :
     (F_q1 \in t \/ F_q2 \in t) /\ Cardinality(t) <= MaxFiles}

InitBlank ==
  /\ tree \in BlankTrees
  /\ cfg \in Configs
  /\ ledger = <<>>
  /\ dest = NoFiles
  /\ phase = "idle"
  /\ flags = [dry_run |-> FALSE, dry_ai |-> FALSE]
  /\ todo = {}
  /\ history = <<>>
  /\ last = NoLast
  /\ probe = NoProbe
  /\ inst = NoInst

SpecBlank == InitBlank /\ [][Next]_vars

\* the part of a file name before its last dot
Stem(n) == IF RFind(n, ".") = 0 THEN n ELSE SubSeq(n, 1, RFind(n, ".") - 1)

\* path p is DEST/<directory>/<file>, the directory name and the stem of
\* the file name not empty
TwoLevelsBelowDest(p) ==
  LET root == DEST \o <<"/">>
      rel == SubSeq(p, Len(root) + 1, Len(p))
      dir == SplitFirst(rel, "/")
      file == SubSeq(rel, Len(dir) + 2, Len(rel))
  IN /\ IsPrefix(root, p)
     /\ dir # <<>>
     /\ Len(dir) < Len(rel)
     /\ RFind(file, "/") = 0
     /\ Stem(file) # <<>>

\* C33: every file of the destination tree lies exactly two levels below
\* the destination root, in a directory whose name is not empty and under
\* a file name whose stem is not empty
C33_PlacedTwoLevelsDown ==
  \A p \in DOMAIN dest : TwoLevelsBelowDest(p)

====
